---- MODULE Spec2Model ----
(***************************************************************************)
(* Race lifecycle orchestrator and settlement engine of rpg-downtime.      *)
(*                                                                         *)
(* The committed SQLite store (races, racers, bets, wallets) is shared by  *)
(* every coroutine.  Each command handler and the scheduler's tick opens    *)
(* its own SQLAlchemy session (expire_on_commit=False): what a session has  *)
(* loaded stays in its identity map with the values it was loaded with,     *)
(* and a commit writes the session's in-memory values back as absolute      *)
(* values.  Each action below is the code between two await points.         *)
(*                                                                         *)
(* Modelled: race_bet, wallet, add_racer, start_race, cancel_race,          *)
(* force-start and the scheduler's tick with resolve_payouts and the        *)
(* retirements; the notifications of the tick as far as they can fail;      *)
(* _stream_commentary, simulate_race and get_race_history on their own.     *)
(* Not modelled: the commands that only read, the racer rename and the      *)
(* admin racer delete, the text of the messages sent to Discord, and        *)
(* SQLite's lock waits (a writer that waits for another session's           *)
(* transaction commits after it; the order of the commits is left open).    *)
(***************************************************************************)
EXTENDS Integers, FiniteSets, Sequences, TLC

\* ---------------------------------------------------------------- bounds
MaxOps == 5          \* command invocations and ticks in one behaviour
MaxFails == 1        \* injected storage errors in one behaviour
MaxInFlight == 2     \* coroutines (commands, the tick) in flight together
MaxOverlapOps == 4   \* invocations in one behaviour of SpecOverlap
MaxWagerOps == 3     \* invocations in one behaviour of SpecWager

\* ------------------------------------------------------ inputs and config
Users == {1, 2}              \* context.author.id of the bettors
Amounts == {-2, 1, 2}        \* the amount argument of race_bet
Handlers == {1, 2}           \* race_bet invocations that may be in flight together
Settlers == {"tick", "force"}
Owners == {1}                \* owner argument of add_racer

race_frequency == 2          \* Settings.race_frequency
default_wallet == 1          \* Settings.default_wallet
retirement_threshold == 65   \* Settings.retirement_threshold
Draws == {64, 65}            \* results of random.randint(1, 100)

VARIABLES
    races,      \* store: race id -> [finished]
    racers,     \* store: racer id -> [retired]
    bets,       \* store: bet id -> [race_id, user_id, racer_id, amount]
    wallets,    \* store: user id -> balance
    hb,         \* per race_bet invocation: its locals and position
    st,         \* per settling coroutine (tick, force-start): session and position
    cn,         \* cancel_race: its locals and position
    used,       \* so far: invocations, injected errors, races created today
    settled,    \* history: race id -> the bets its returned resolve_payouts resolved
    cm,         \* one _stream_commentary call: its locals, the sink and its position
    sim,        \* simulate_race: its argument, the module's generator, the results
    course_segments  \* store: race id -> the number of its CourseSegment rows

vars == <<races, racers, bets, wallets, hb, st, cn, used, settled, cm, sim,
          course_segments>>
store == <<races, racers, bets, wallets>>
\* What the commands and the tick leave alone.
aux == <<cm, sim, course_segments>>

\* --------------------------------------------------------------- helpers
Max(S) == CHOOSE x \in S : \A y \in S : y <= x
Min(S) == CHOOSE x \in S : \A y \in S : x <= y

\* INTEGER PRIMARY KEY without AUTOINCREMENT: the next rowid is max(rowid)+1.
NextId(f) == IF DOMAIN f = {} THEN 1 ELSE Max(DOMAIN f) + 1

\* f with key k bound to v (an INSERT, or an UPDATE of the whole row).
Put(f, k, v) == [x \in DOMAIN f \cup {k} |-> IF x = k THEN v ELSE f[x]]
\* f without the keys in K (a DELETE; a key that is absent is only a warning).
Drop(f, K) == [x \in DOMAIN f \ K |-> f[x]]

\* select(Race).where(finished.is_(False)), as ids
UnfinishedRaces == {r \in DOMAIN races : ~races[r].finished}
\* ... .order_by(Race.id) ... .first(); 0 stands for None
FirstUnfinished == IF UnfinishedRaces = {} THEN 0 ELSE Min(UnfinishedRaces)
\* select(Racer).where(retired.is_(False)), as ids
ActiveRacers == {r \in DOMAIN racers : ~racers[r].retired}
\* select(Bet).where(race_id == r), as ids
BetsOfRace(r) == {b \in DOMAIN bets : bets[b].race_id = r}
\* select(Bet).where(race_id == r).where(user_id == u), as ids
BetsOf(r, u) == {b \in DOMAIN bets : bets[b].race_id = r /\ bets[b].user_id = u}

\* ------------------------------------------------------------- race_bet
\* Locals of one race_bet invocation.  race = 0: no race; ex = 0: no existing
\* bet; bal0 is the balance the session loaded, bal the in-memory balance.
\* History, as of the invocation: preBal is the author's balance (the default
\* when the wallet does not exist yet), preB the author's bets on the race.
IdleBet ==
    [pc |-> "idle", user |-> 0, racer |-> 0, amount |-> 0, race |-> 0,
     bal0 |-> 0, bal |-> 0, ex |-> 0, exRacer |-> 0, exAmount |-> 0,
     out |-> "none", preBal |-> 0, preB |-> <<>>]

\* The coroutines in flight: commands that have not replied, a tick that has
\* not returned.
InFlight ==
    Cardinality({h \in Handlers : hb[h].pc # "idle"})
    + Cardinality({p \in Settlers : st[p].pc \notin {"idle", "stopped"}})
    + (IF cn.pc # "idle" THEN 1 ELSE 0)

\* cogs/derby.py 98-104: the command is invoked; the first session selects the
\* first unfinished race.
BetSelectRace(h, u, r, a) ==
    /\ hb[h].pc = "idle"
    /\ \A g \in Handlers : hb[g].pc = "idle" => h <= g
    /\ used.ops < MaxOps
    /\ InFlight < MaxInFlight
    /\ used' = [used EXCEPT !.ops = @ + 1]
    /\ hb' = [hb EXCEPT ![h] = [IdleBet EXCEPT !.pc = "sel_racers", !.user = u,
                                 !.racer = r, !.amount = a, !.race = FirstUnfinished,
                                 !.preBal = IF u \in DOMAIN wallets THEN wallets[u]
                                            ELSE default_wallet,
                                 !.preB = [b \in BetsOf(FirstUnfinished, u) |-> bets[b]]]]
    /\ UNCHANGED <<store, st, cn, settled, aux>>

\* cogs/derby.py 105-114: select the non-retired racers, then the two early
\* returns.
BetSelectRacers(h) ==
    /\ hb[h].pc = "sel_racers"
    /\ hb' = [hb EXCEPT ![h] =
                IF hb[h].race = 0 \/ ActiveRacers = {}
                THEN [@ EXCEPT !.pc = "send", !.out = "no_race"]
                ELSE IF hb[h].racer \notin ActiveRacers
                THEN [@ EXCEPT !.pc = "send", !.out = "no_racer"]
                ELSE [@ EXCEPT !.pc = "get_wallet"]]
    /\ UNCHANGED <<store, st, cn, used, settled, aux>>

\* cogs/derby.py 115-117: the second session loads the author's wallet.
BetGetWallet(h) ==
    /\ hb[h].pc = "get_wallet"
    /\ hb' = [hb EXCEPT ![h] =
                IF hb[h].user \in DOMAIN wallets
                THEN [@ EXCEPT !.pc = "sel_bet", !.bal0 = wallets[hb[h].user],
                                !.bal = wallets[hb[h].user]]
                ELSE [@ EXCEPT !.pc = "mk_wallet"]]
    /\ UNCHANGED <<store, st, cn, used, settled, aux>>

\* cogs/derby.py 118-122, repositories.py 13-18: INSERT the wallet with the
\* default balance and commit; the primary key rejects a second row.
BetCreateWallet(h) ==
    /\ hb[h].pc = "mk_wallet"
    /\ IF hb[h].user \in DOMAIN wallets
       THEN /\ hb' = [hb EXCEPT ![h] = [@ EXCEPT !.pc = "send", !.out = "error"]]
            /\ UNCHANGED wallets
       ELSE /\ wallets' = Put(wallets, hb[h].user, default_wallet)
            /\ hb' = [hb EXCEPT ![h] = [@ EXCEPT !.pc = "sel_bet",
                                         !.bal0 = default_wallet,
                                         !.bal = default_wallet]]
    /\ UNCHANGED <<races, racers, bets, st, cn, used, settled, aux>>

\* A faulty Rebalance: the existing bet is not refunded.
RebalanceNoRefund(bal, existing, amount) ==
    IF bal < amount
    THEN [ok |-> FALSE, bal |-> bal]
    ELSE [ok |-> TRUE, bal |-> bal - amount]

\* cogs/derby.py 129-135, the arithmetic after the bet query: refund the
\* existing bet in memory, compare, debit in memory.
Rebalance(bal, existing, amount) ==
    LET refunded == bal + existing
    IN  IF refunded < amount
        THEN [ok |-> FALSE, bal |-> refunded]
        ELSE [ok |-> TRUE, bal |-> refunded - amount]

\* cogs/derby.py 123-135: select the author's bet on the race (.first()), then
\* Rebalance up to the next await (one of the two commits).
BetSelectBet(h) ==
    /\ hb[h].pc = "sel_bet"
    /\ LET found == BetsOf(hb[h].race, hb[h].user)
           ex == IF found = {} THEN 0 ELSE Min(found)
           exAmount == IF ex = 0 THEN 0 ELSE bets[ex].amount
           exRacer == IF ex = 0 THEN 0 ELSE bets[ex].racer_id
           res == Rebalance(hb[h].bal, exAmount, hb[h].amount)
       IN  hb' = [hb EXCEPT ![h] = [@ EXCEPT
                    !.pc = IF res.ok THEN "commit_debit" ELSE "commit_reject",
                    !.bal = res.bal, !.ex = ex, !.exAmount = exAmount,
                    !.exRacer = exRacer]]
    /\ UNCHANGED <<store, st, cn, used, settled, aux>>

\* The flush of a commit writes the wallet only when its balance differs from
\* the loaded one (UPDATE wallets SET balance = <in-memory value>).
FlushWallet(w, u, bal0, bal) == IF bal # bal0 THEN Put(w, u, bal) ELSE w

\* A faulty rejection: the refunded bet is deleted with the commit.
BetCommitRejectCancels(h) ==
    /\ hb[h].pc = "commit_reject"
    /\ wallets' = FlushWallet(wallets, hb[h].user, hb[h].bal0, hb[h].bal)
    /\ bets' = Drop(bets, {hb[h].ex})
    /\ hb' = [hb EXCEPT ![h] = [@ EXCEPT !.pc = "send", !.out = "insufficient"]]
    /\ UNCHANGED <<races, racers, st, cn, used, settled, aux>>

\* cogs/derby.py 131-134: insufficient balance; the session is committed.
BetCommitReject(h) ==
    /\ hb[h].pc = "commit_reject"
    /\ wallets' = FlushWallet(wallets, hb[h].user, hb[h].bal0, hb[h].bal)
    /\ hb' = [hb EXCEPT ![h] = [@ EXCEPT !.pc = "send", !.out = "insufficient"]]
    /\ UNCHANGED <<races, racers, bets, st, cn, used, settled, aux>>

\* cogs/derby.py 135-136: debit and commit.
BetCommitDebit(h) ==
    /\ hb[h].pc = "commit_debit"
    /\ wallets' = FlushWallet(wallets, hb[h].user, hb[h].bal0, hb[h].bal)
    /\ hb' = [hb EXCEPT ![h] = [@ EXCEPT !.pc = "write_bet"]]
    /\ UNCHANGED <<races, racers, bets, st, cn, used, settled, aux>>

\* cogs/derby.py 137-148, repositories.py 13-18 and 28-38: create_bet INSERTs
\* a row (foreign keys are not enforced); update_bet finds the loaded row in
\* the identity map, UPDATEs the changed columns and refreshes it, which
\* raises when the row is gone.
BetWriteBet(h) ==
    /\ hb[h].pc = "write_bet"
    /\ IF hb[h].ex = 0
       THEN /\ bets' = Put(bets, NextId(bets),
                           [race_id |-> hb[h].race, user_id |-> hb[h].user,
                            racer_id |-> hb[h].racer, amount |-> hb[h].amount])
            /\ hb' = [hb EXCEPT ![h] = [@ EXCEPT !.pc = "send", !.out = "placed"]]
       ELSE IF hb[h].ex \notin DOMAIN bets
       THEN /\ hb' = [hb EXCEPT ![h] = [@ EXCEPT !.pc = "send", !.out = "error"]]
            /\ UNCHANGED bets
       ELSE /\ bets' = [bets EXCEPT ![hb[h].ex] = [@ EXCEPT
                    !.racer_id = IF hb[h].racer # hb[h].exRacer
                                 THEN hb[h].racer ELSE @,
                    !.amount = IF hb[h].amount # hb[h].exAmount
                               THEN hb[h].amount ELSE @]]
            /\ hb' = [hb EXCEPT ![h] = [@ EXCEPT !.pc = "send", !.out = "placed"]]
    /\ UNCHANGED <<races, racers, wallets, st, cn, used, settled, aux>>

\* cogs/derby.py 110, 113, 133, 149, 208: the reply to the author ends the
\* command.
BetSend(h) ==
    /\ hb[h].pc = "send"
    /\ hb' = [hb EXCEPT ![h] = IdleBet]
    /\ UNCHANGED <<store, st, cn, used, settled, aux>>

\* --------------------------------------------------------------- wallet
\* cogs/derby.py 198-201: the wallet command is invoked and its session loads
\* the author's wallet.
WalletGet(h, u) ==
    /\ hb[h].pc = "idle"
    /\ \A g \in Handlers : hb[g].pc = "idle" => h <= g
    /\ used.ops < MaxOps
    /\ InFlight < MaxInFlight
    /\ used' = [used EXCEPT !.ops = @ + 1]
    /\ hb' = [hb EXCEPT ![h] = [IdleBet EXCEPT !.user = u,
                    !.pc = IF u \in DOMAIN wallets THEN "send" ELSE "w_create",
                    !.out = IF u \in DOMAIN wallets THEN "balance" ELSE "none"]]
    /\ UNCHANGED <<store, st, cn, settled, aux>>

\* cogs/derby.py 202-207, repositories.py 13-18: INSERT the wallet with the
\* default balance and commit; the primary key rejects a second row.
WalletCreate(h) ==
    /\ hb[h].pc = "w_create"
    /\ IF hb[h].user \in DOMAIN wallets
       THEN /\ hb' = [hb EXCEPT ![h] = [@ EXCEPT !.pc = "send", !.out = "error"]]
            /\ UNCHANGED wallets
       ELSE /\ wallets' = Put(wallets, hb[h].user, default_wallet)
            /\ hb' = [hb EXCEPT ![h] = [@ EXCEPT !.pc = "send", !.out = "balance"]]
    /\ UNCHANGED <<races, racers, bets, st, cn, used, settled, aux>>

\* ---------------------------------------------------------- simulate_race
MaxRacers == 3               \* the longest participant list
MaxSegments == 2             \* the most course segments
MaxCalls == 2                \* invocations of simulate_race in one behaviour
MaxField == 5                \* the most active racers in the stable
RacerIds == {1, 2, 3}        \* the ids the participants are taken from
Seeds == {1, 2}              \* the seed argument
Period == 8                  \* the states of a generator

\* The participant lists: the empty one included, ids may repeat.
RacerLists == UNION {[1..n -> RacerIds] : n \in 0..MaxRacers}

\* A random.Random is a state in 0..Period-1; every draw advances it, and what
\* is drawn is a function of the state reached.
Advance(s) == (5 * s + 3) % Period
\* Random._randbelow(n): a draw from 0..n-1
randbelow(s, n) == Advance(s) % n

\* A faulty NewGenerator: the module's generator, in the state g it is in.
SharedGenerator(seed, g) == g

\* logic.py 82: random.Random(seed), a generator of its own; the state g of
\* the module's generator plays no part.
NewGenerator(seed, g) == seed % Period

\* A faulty Swap: x[i] is overwritten and x[j] kept.
Overwrite(x, i, j) == [x EXCEPT ![i] = x[j]]

\* x[i], x[j] = x[j], x[i]
Swap(x, i, j) == [x EXCEPT ![i] = x[j], ![j] = x[i]]

\* logic.py 95, random.shuffle: for i from the last index down to the second,
\* swap x[i] with x[j], j drawn from the indexes up to i.
RECURSIVE shuffle(_, _, _)
shuffle(x, i, s) ==
    IF i <= 1 THEN [list |-> x, rng |-> s]
    ELSE shuffle(Swap(x, i, randbelow(s, i) + 1), i - 1, Advance(s))

\* logic.py 97-100: one line per course segment, numbered from 1, naming a
\* racer drawn from placements (random.choice).
RECURSIVE event_log(_, _, _, _)
event_log(placements, idx, k, s) ==
    IF idx > k THEN <<>>
    ELSE <<[segment |-> idx,
            racer |-> placements[randbelow(s, Len(placements)) + 1]]>>
         \o event_log(placements, idx + 1, k, Advance(s))

\* logic.py 74-102: ids is the list of the participants' ids, k the number of
\* course segments.  The ids are copied before the shuffle, so the list
\* passed in is returned as it was.  rng.choice of an empty placements (99)
\* raises IndexError: raised, and nothing is returned.
simulate_race(ids, k, seed, g) ==
    LET sh == shuffle(ids, Len(ids), NewGenerator(seed, g))
        raised == Len(sh.list) = 0 /\ k > 0
    IN  [placements |-> sh.list,
         log |-> IF raised THEN <<>> ELSE event_log(sh.list, 1, k, sh.rng),
         racers |-> ids,
         raised |-> raised]

\* --------------------------------------------- tick and force-start sessions
\* Locals and session of a settling coroutine.  todo: the unfinished races the
\* tick loaded and has not started; loaded: the racers it selected; parts: the
\* participants of the current race; dm: the bets selected at scheduler.py
\* 124; rb: the bets resolve_payouts works on; left: those not yet processed;
\* wc: the wallets the session holds, with their in-memory balances; wc0:
\* their balances as last read or flushed; del: bets marked
\* deleted and not yet flushed; rleft: participants _apply_retirements has
\* not visited; listed: the unfinished races the tick selected (todo is the
\* part of the list the loop has not reached).  History: w0 is the wallets
\* table as resolve_payouts found it; r0 the racers table as the retirements
\* found it; drawn the draw of each participant visited; steps the lifecycle
\* steps begun for the current race; gone the races of this coroutine that
\* cancel_race has deleted since it selected them.  log is the event log the
\* tick's simulation returned for the current race.
IdleSt ==
    [pc |-> "idle", need |-> 0, todo |-> <<>>, race |-> 0, loaded |-> {},
     parts |-> {}, dm |-> <<>>, rb |-> <<>>, left |-> {}, winner |-> 0,
     wc |-> <<>>, wc0 |-> <<>>, del |-> {}, rleft |-> {}, w0 |-> <<>>,
     listed |-> {}, r0 |-> <<>>, drawn |-> <<>>, steps |-> <<>>, gone |-> {},
     log |-> <<>>]

\* The ids of S in ascending order (rows come back in rowid order).
RECURSIVE Ascending(_)
Ascending(S) == IF S = {} THEN <<>> ELSE <<Min(S)>> \o Ascending(S \ {Min(S)})

\* random.sample(racers, min(k, len(racers))): the possible participant sets.
Samples(pool, k) ==
    {S \in SUBSET pool :
        Cardinality(S) = IF k < Cardinality(pool) THEN k ELSE Cardinality(pool)}

TickSample == 8
ForceSample == 3

\* A faulty TickBegin: only the unfinished races are counted.
TickBeginCountsUnfinished ==
    /\ st["tick"].pc = "idle"
    /\ used.ops < MaxOps
    /\ InFlight < MaxInFlight
    /\ used' = [used EXCEPT !.ops = @ + 1]
    /\ LET needed == race_frequency - Cardinality(UnfinishedRaces)
       IN  st' = [st EXCEPT !["tick"] = [IdleSt EXCEPT !.pc = "create",
                    !.need = IF needed > 0 THEN needed ELSE 0]]
    /\ UNCHANGED <<store, hb, cn, settled, aux>>

\* A faulty TickBegin: tick() is invoked while a tick is in progress.
TickBeginAnytime ==
    /\ st["tick"].pc # "stopped"
    /\ used.ops < MaxOps
    /\ InFlight < MaxInFlight
    /\ used' = [used EXCEPT !.ops = @ + 1]
    /\ LET needed == race_frequency - Cardinality(DOMAIN races)
       IN  st' = [st EXCEPT !["tick"] = [IdleSt EXCEPT !.pc = "create",
                    !.need = IF needed > 0 THEN needed ELSE 0]]
    /\ UNCHANGED <<store, hb, cn, settled, aux>>

\* scheduler.py 28, 70-90: the task loop invokes tick() when its last
\* invocation has returned; the count of today's races (one guild, one day)
\* gives the number still needed.
TickBegin ==
    /\ st["tick"].pc = "idle"
    /\ used.ops < MaxOps
    /\ InFlight < MaxInFlight
    /\ used' = [used EXCEPT !.ops = @ + 1]
    /\ LET needed == race_frequency - Cardinality(DOMAIN races)
       IN  st' = [st EXCEPT !["tick"] = [IdleSt EXCEPT !.pc = "create",
                    !.need = IF needed > 0 THEN needed ELSE 0]]
    /\ UNCHANGED <<store, hb, cn, settled, aux>>

\* scheduler.py 91-96, repositories.py 13-18: one create_race of the loop.
TickCreateRace ==
    /\ st["tick"].pc = "create"
    /\ st["tick"].need > 0
    /\ races' = Put(races, NextId(races), [finished |-> FALSE])
    /\ settled' = Drop(settled, {NextId(races)})
    /\ st' = [st EXCEPT !["tick"].need = @ - 1]
    /\ used' = [used EXCEPT !.made = @ + 1]
    /\ UNCHANGED <<racers, bets, wallets, hb, cn, aux>>

\* A faulty TickLoadRaces: only the first unfinished race is selected.
TickLoadFirstRace ==
    /\ st["tick"].pc = "create"
    /\ st["tick"].need = 0
    /\ st' = [st EXCEPT !["tick"] =
                IF UnfinishedRaces = {} THEN IdleSt
                ELSE [@ EXCEPT !.pc = "load_racers", !.need = 0,
                                !.todo = <<FirstUnfinished>>,
                                !.listed = {FirstUnfinished}]]
    /\ UNCHANGED <<store, hb, cn, used, settled, aux>>

\* scheduler.py 99-104: select the unfinished races; return when there are none.
TickLoadRaces ==
    /\ st["tick"].pc = "create"
    /\ st["tick"].need = 0
    /\ st' = [st EXCEPT !["tick"] =
                IF UnfinishedRaces = {} THEN IdleSt
                ELSE [@ EXCEPT !.pc = "load_racers", !.need = 0,
                                !.todo = Ascending(UnfinishedRaces),
                                !.listed = UnfinishedRaces]]
    /\ UNCHANGED <<store, hb, cn, used, settled, aux>>

\* A faulty TickLoadRacers: the tick goes on without racers.
TickLoadRacersAnyway ==
    /\ st["tick"].pc = "load_racers"
    /\ st' = [st EXCEPT !["tick"] = [@ EXCEPT !.pc = "next",
                                      !.loaded = ActiveRacers]]
    /\ UNCHANGED <<store, hb, cn, used, settled, aux>>

\* scheduler.py 106-111: select the non-retired racers; return when there are
\* none.
TickLoadRacers ==
    /\ st["tick"].pc = "load_racers"
    /\ st' = [st EXCEPT !["tick"] =
                IF ActiveRacers = {} THEN IdleSt
                ELSE [@ EXCEPT !.pc = "next", !.loaded = ActiveRacers]]
    /\ UNCHANGED <<store, hb, cn, used, settled, aux>>

\* scheduler.py 113-116: the next race of the loop: sample the participants,
\* announce, and sleep for the betting window; after the last race tick()
\* returns and its session closes.
TickOpenBetting ==
    /\ st["tick"].pc = "next"
    /\ IF st["tick"].todo = <<>>
       THEN st' = [st EXCEPT !["tick"] = IdleSt]
       ELSE \E S \in Samples(st["tick"].loaded, TickSample) :
                st' = [st EXCEPT !["tick"] = [@ EXCEPT !.pc = "betting",
                          !.race = Head(st["tick"].todo),
                          !.todo = Tail(st["tick"].todo), !.parts = S,
                          !.steps = <<"announce", "wait">>]]
    /\ UNCHANGED <<store, hb, cn, used, settled, aux>>

\* scheduler.py 116-117: the sleep of the betting window is over; the tick
\* starts the countdown.
TickCountdown ==
    /\ st["tick"].pc = "betting"
    /\ st' = [st EXCEPT !["tick"] = [@ EXCEPT !.pc = "countdown",
                                      !.steps = Append(@, "countdown")]]
    /\ UNCHANGED <<store, hb, cn, used, settled, aux>>

\* cogs/derby.py 288-302: force-start is invoked; the race is the first
\* unfinished one, or the one named unless it is finished.
ForceSelectRace(arg) ==
    /\ st["force"].pc = "idle"
    /\ used.ops < MaxOps
    /\ InFlight < MaxInFlight
    /\ used' = [used EXCEPT !.ops = @ + 1]
    /\ LET race == IF arg = 0 THEN FirstUnfinished
                   ELSE IF arg \in DOMAIN races /\ ~races[arg].finished
                   THEN arg ELSE 0
       IN  st' = [st EXCEPT !["force"] =
                    IF race = 0 THEN [IdleSt EXCEPT !.pc = "send"]
                    ELSE [IdleSt EXCEPT !.pc = "f_racers", !.race = race]]
    /\ UNCHANGED <<store, hb, cn, settled, aux>>

\* cogs/derby.py 303-313: select the non-retired racers and sample the
\* participants.
ForceSelectRacers ==
    /\ st["force"].pc = "f_racers"
    /\ IF ActiveRacers = {}
       THEN st' = [st EXCEPT !["force"] = [@ EXCEPT !.pc = "send"]]
       ELSE \E S \in Samples(ActiveRacers, ForceSample) :
                st' = [st EXCEPT !["force"] = [@ EXCEPT !.pc = "betting",
                          !.loaded = ActiveRacers, !.parts = S]]
    /\ UNCHANGED <<store, hb, cn, used, settled, aux>>

\* cogs/derby.py 301, 308, 325: the reply to the admin ends force-start.
ForceSend ==
    /\ st["force"].pc = "send"
    /\ st' = [st EXCEPT !["force"] = IdleSt]
    /\ UNCHANGED <<store, hb, cn, used, settled, aux>>

\* An exception leaves the coroutine; its session closes without a commit.
\* force-start's command fails; the scheduler's loop task (scheduler.py 28,
\* 70-71) ends with the exception and runs no further tick.
Raised(p) == [IdleSt EXCEPT !.pc = IF p = "force" THEN "send" ELSE "stopped"]

\* models.py 54-60: the number of CourseSegment rows whose race_id is r.
SegmentsOf(r) == IF r \in DOMAIN course_segments THEN course_segments[r] ELSE 0

\* scheduler.py 122: the dict the tick passes to simulate_race has the key
\* "racers" only, so logic.py 87 finds no course segments, whatever rows the
\* race has.
PassedSegments == 0

\* scheduler.py 122: the log of the tick's simulation of its current race, the
\* race's id being the seed.
TickLog(s) ==
    simulate_race(Ascending(s.parts), PassedSegments, s.race, sim.g).log

\* A faulty MarkFinished: the tick does not wait for the countdown.
MarkFinishedEarly(p) ==
    /\ st[p].pc = "betting"
    /\ IF st[p].race \notin DOMAIN races
       THEN /\ st' = [st EXCEPT ![p] = Raised(p)]
            /\ UNCHANGED races
       ELSE /\ races' = [races EXCEPT ![st[p].race].finished = TRUE]
            /\ st' = [st EXCEPT ![p] = [@ EXCEPT
                        !.pc = IF p = "tick" THEN "load_bets" ELSE "resolve",
                        !.log = IF p = "tick" THEN TickLog(st[p]) ELSE <<>>,
                        !.steps = @ \o <<"simulate", "finished">>]]
    /\ UNCHANGED <<racers, bets, wallets, hb, cn, used, settled, aux>>

\* scheduler.py 117-123, cogs/derby.py 314, repositories.py 28-38: after the
\* countdown and the simulation, update_race(finished=True) finds the race in
\* the identity map and UPDATEs its row; no row matched raises.
\* The tick's countdown is over; force-start has no countdown.
MarkFinished(p) ==
    /\ st[p].pc = IF p = "tick" THEN "countdown" ELSE "betting"
    /\ IF st[p].race \notin DOMAIN races
       THEN /\ st' = [st EXCEPT ![p] = Raised(p)]
            /\ UNCHANGED races
       ELSE /\ races' = [races EXCEPT ![st[p].race].finished = TRUE]
            /\ st' = [st EXCEPT ![p] = [@ EXCEPT
                        !.pc = IF p = "tick" THEN "load_bets" ELSE "resolve",
                        !.log = IF p = "tick" THEN TickLog(st[p]) ELSE <<>>,
                        !.steps = @ \o <<"simulate", "finished">>]]
    /\ UNCHANGED <<racers, bets, wallets, hb, cn, used, settled, aux>>

\* scheduler.py 124-132: the tick selects the race's bets for the payout
\* messages.
TickLoadBets ==
    /\ st["tick"].pc = "load_bets"
    /\ st' = [st EXCEPT !["tick"] = [@ EXCEPT !.pc = "resolve",
                !.dm = [b \in BetsOfRace(st["tick"].race) |-> bets[b]]]]
    /\ UNCHANGED <<store, hb, cn, used, settled, aux>>

\* ------------------------------------------------------- resolve_payouts
\* The identity map references its objects weakly: the session keeps the
\* wallets with unflushed changes, and the wallet the local variable is bound
\* to (user u); any other is read again when it is next asked for.
Held(wc, wc0, u) == {v \in DOMAIN wc : wc[v] # wc0[v]} \cup {u}

\* A faulty Credit: the bet is not marked deleted.
CreditKeepsBet(s, b) ==
    LET u == s.rb[b].user_id
        wc == [s.wc EXCEPT ![u] = IF s.rb[b].racer_id = s.winner
                                  THEN @ + s.rb[b].amount * 2 ELSE @]
    IN  [s EXCEPT !.wc = [v \in Held(wc, s.wc0, u) |-> wc[v]],
                  !.wc0 = [v \in Held(wc, s.wc0, u) |-> s.wc0[v]],
                  !.left = @ \ {b}]

\* logic.py 132-134: one bet whose wallet the session holds: credit twice the
\* amount in memory when the bet is on the winner, and mark the bet deleted.
Credit(s, b) ==
    LET u == s.rb[b].user_id
        wc == [s.wc EXCEPT ![u] = IF s.rb[b].racer_id = s.winner
                                  THEN @ + s.rb[b].amount * 2 ELSE @]
    IN  [s EXCEPT !.wc = [v \in Held(wc, s.wc0, u) |-> wc[v]],
                  !.wc0 = [v \in Held(wc, s.wc0, u) |-> s.wc0[v]],
                  !.del = @ \cup {b},
                  !.left = @ \ {b}]

\* logic.py 124-136: the loop runs without suspending while session.get finds
\* the wallet in the identity map; it suspends at a wallet it has to read, or
\* at the final commit.
RECURSIVE Drain(_)
Drain(s) ==
    IF s.left = {} THEN [s EXCEPT !.pc = "commit"]
    ELSE IF s.rb[Min(s.left)].user_id \notin DOMAIN s.wc
    THEN [s EXCEPT !.pc = "get_wallet"]
    ELSE Drain(Credit(s, Min(s.left)))

\* A faulty WinningRacer: the highest racer id.
HighestRacer(rb) == Max({rb[b].racer_id : b \in DOMAIN rb})

\* logic.py 122
WinningRacer(rb) == Min({rb[b].racer_id : b \in DOMAIN rb})

\* logic.py 114-122: select the race's bets; a row the session already holds
\* keeps the values it was loaded with.  No bets: return.
ResolveLoad(p) ==
    /\ st[p].pc = "resolve"
    /\ LET rb == [b \in BetsOfRace(st[p].race) |->
                    IF b \in DOMAIN st[p].dm THEN st[p].dm[b] ELSE bets[b]]
       IN  IF DOMAIN rb = {}
           THEN /\ st' = [st EXCEPT ![p] = [@ EXCEPT !.pc = "retire",
                                !.rb = <<>>, !.rleft = st[p].parts,
                                !.r0 = racers,
                                !.steps = @ \o <<"settle", "retire">>]]
                /\ settled' = IF st[p].race \in DOMAIN settled THEN settled
                               ELSE Put(settled, st[p].race, {})
           ELSE /\ st' = [st EXCEPT ![p] = Drain([@ EXCEPT !.rb = rb,
                            !.left = DOMAIN rb, !.winner = WinningRacer(rb),
                            !.w0 = wallets, !.steps = Append(@, "settle")])]
                /\ UNCHANGED settled
    /\ UNCHANGED <<store, hb, cn, used, aux>>

\* The flush of a commit: UPDATE every wallet whose in-memory balance differs
\* from the one last read or written, DELETE every bet marked deleted.
FlushWallets(w, s) ==
    [u \in DOMAIN w |-> IF u \in DOMAIN s.wc /\ s.wc[u] # s.wc0[u]
                        THEN s.wc[u] ELSE w[u]]

\* A faulty NewWalletBalance: the configured default.
NewWalletDefault == default_wallet

\* logic.py 127
NewWalletBalance == 0

\* logic.py 125-130: session.get reads a wallet the session does not hold.
\* When the bettor has none, a wallet is added and the session committed,
\* which also flushes what the loop has done so far and leaves the session
\* holding the new wallet only.
ResolveGetWallet(p) ==
    /\ st[p].pc = "get_wallet"
    /\ LET u == st[p].rb[Min(st[p].left)].user_id
       IN  IF u \in DOMAIN wallets
           THEN /\ st' = [st EXCEPT ![p] =
                            Drain([@ EXCEPT !.wc = Put(@, u, wallets[u]),
                                            !.wc0 = Put(@, u, wallets[u])])]
                /\ UNCHANGED <<wallets, bets>>
           ELSE /\ wallets' = Put(FlushWallets(wallets, st[p]), u, NewWalletBalance)
                /\ bets' = Drop(bets, st[p].del)
                /\ st' = [st EXCEPT ![p] = Drain([@ EXCEPT
                            !.wc = [v \in {u} |-> NewWalletBalance],
                            !.wc0 = [v \in {u} |-> NewWalletBalance],
                            !.del = {}])]
    /\ UNCHANGED <<races, racers, hb, cn, used, settled, aux>>

\* logic.py 136: the final commit; resolve_payouts returns and its wallets
\* go out of scope.
ResolveCommit(p) ==
    /\ st[p].pc = "commit"
    /\ wallets' = FlushWallets(wallets, st[p])
    /\ bets' = Drop(bets, st[p].del)
    /\ st' = [st EXCEPT ![p] = [@ EXCEPT !.pc = "retire", !.wc = <<>>,
                                !.wc0 = <<>>, !.del = {}, !.rleft = st[p].parts,
                                !.r0 = racers, !.steps = Append(@, "retire")]]
    /\ settled' = Put(settled, st[p].race,
                       (IF st[p].race \in DOMAIN settled
                        THEN settled[st[p].race] ELSE {}) \cup DOMAIN st[p].rb)
    /\ UNCHANGED <<races, racers, hb, cn, used, aux>>

\* A storage error at one of resolve_payouts' awaits (the bet query, a wallet
\* read, a commit): the exception leaves the coroutine with nothing flushed.
ResolveFail(p) ==
    /\ st[p].pc \in {"resolve", "get_wallet", "commit"}
    /\ used.fail < MaxFails
    /\ used' = [used EXCEPT !.fail = @ + 1]
    /\ st' = [st EXCEPT ![p] = Raised(p)]
    /\ UNCHANGED <<store, hb, cn, settled, aux>>

\* ------------------------------------------------------------ retirement
\* A faulty Retires: a draw equal to the threshold does not retire.
RetiresAbove(draw, threshold) == draw > threshold

\* scheduler.py 242, cogs/derby.py 318
Retires(draw, threshold) == draw >= threshold

\* A faulty Retire: the successor takes the place of the retired racer's row.
RetireAndRemove(p, draw) ==
    /\ st[p].pc = "retire"
    /\ st[p].rleft # {}
    /\ LET r == Min(st[p].rleft)
       IN  /\ IF Retires(draw, retirement_threshold)
              THEN /\ r \in DOMAIN racers
                   /\ racers' = Put(Drop(racers, {r}), NextId(racers),
                                    [retired |-> FALSE, owner |-> racers[r].owner,
                                     gen |-> racers[r].gen + 1])
              ELSE UNCHANGED racers
           /\ st' = [st EXCEPT ![p] = [@ EXCEPT !.rleft = @ \ {r},
                                        !.drawn = Put(@, r, draw)]]
    /\ UNCHANGED <<races, bets, wallets, hb, cn, used, settled, aux>>

\* scheduler.py 241-248, cogs/derby.py 317-322: one participant of the loop:
\* draw; at or above the threshold mark it retired and create its successor
\* (same owner, the name with one more suffix: gen counts the suffixes).
Retire(p, draw) ==
    /\ st[p].pc = "retire"
    /\ st[p].rleft # {}
    /\ LET r == Min(st[p].rleft)
       IN  /\ IF Retires(draw, retirement_threshold)
              THEN /\ r \in DOMAIN racers
                   /\ racers' = Put([racers EXCEPT ![r].retired = TRUE],
                                    NextId(racers),
                                    [retired |-> FALSE, owner |-> racers[r].owner,
                                     gen |-> racers[r].gen + 1])
              ELSE UNCHANGED racers
           /\ st' = [st EXCEPT ![p] = [@ EXCEPT !.rleft = @ \ {r},
                                        !.drawn = Put(@, r, draw)]]
    /\ UNCHANGED <<races, bets, wallets, hb, cn, used, settled, aux>>

\* scheduler.py 135-136, cogs/derby.py 323-325: the commit after the
\* retirements; the tick starts the commentary, force-start replies.
Finish(p) ==
    /\ st[p].pc = "retire"
    /\ st[p].rleft = {}
    /\ st' = [st EXCEPT ![p] =
                IF p = "tick"
                THEN [@ EXCEPT !.pc = "stream", !.parts = {}, !.w0 = <<>>,
                               !.r0 = <<>>, !.drawn = <<>>,
                               !.steps = Append(@, "stream")]
                ELSE [IdleSt EXCEPT !.pc = "send"]]
    /\ UNCHANGED <<store, hb, cn, used, settled, aux>>

\* scheduler.py 136, 188-235: the commentary has ended.
TickStream ==
    /\ st["tick"].pc = "stream"
    /\ st' = [st EXCEPT !["tick"].pc = "results"]
    /\ UNCHANGED <<store, hb, cn, used, settled, aux>>

\* scheduler.py 137, 144-169: the placements are posted to the channel; the
\* tick starts to notify the bettors.
TickPostResults ==
    /\ st["tick"].pc = "results"
    /\ st' = [st EXCEPT !["tick"] = [@ EXCEPT !.pc = "dm",
                                      !.steps = Append(@, "notify")]]
    /\ UNCHANGED <<store, hb, cn, used, settled, aux>>

\* scheduler.py 174: the racer whose bettors _dm_payouts tells they have won.
winning(dm) == Min({dm[b].racer_id : b \in DOMAIN dm})

\* scheduler.py 138-142, 171-186: every bettor selected at line 124 has been
\* sent the outcome; the loop goes on to its next race.
TickDm ==
    /\ st["tick"].pc = "dm"
    /\ st' = [st EXCEPT !["tick"] = [@ EXCEPT !.pc = "next", !.race = 0,
                                      !.dm = <<>>, !.log = <<>>,
                                      !.rb = <<>>, !.winner = 0]]
    /\ UNCHANGED <<store, hb, cn, used, settled, aux>>

\* ------------------------------------------------ failing notifications
\* channel.send and user.send raise discord.Forbidden or discord.HTTPException
\* when the message cannot be delivered.  The commentary of a tick sends
\* nothing: its log is empty, simulate_race being given no course segments
\* (scheduler.py 122).

\* scheduler.py 113-116, 271-274: the announcement cannot be delivered;
\* _announce_race_start returns and the betting window starts.
TickAnnounceFails ==
    /\ st["tick"].pc = "next"
    /\ st["tick"].todo # <<>>
    /\ used.fail < MaxFails
    /\ used' = [used EXCEPT !.fail = @ + 1]
    /\ \E S \in Samples(st["tick"].loaded, TickSample) :
            st' = [st EXCEPT !["tick"] = [@ EXCEPT !.pc = "betting",
                      !.race = Head(st["tick"].todo),
                      !.todo = Tail(st["tick"].todo), !.parts = S,
                      !.steps = <<"announce", "wait">>]]
    /\ UNCHANGED <<store, hb, cn, settled, aux>>

\* scheduler.py 116-117, 286-291: a countdown message cannot be delivered;
\* _countdown returns.
TickCountdownFails ==
    /\ st["tick"].pc = "betting"
    /\ used.fail < MaxFails
    /\ used' = [used EXCEPT !.fail = @ + 1]
    /\ st' = [st EXCEPT !["tick"] = [@ EXCEPT !.pc = "countdown",
                                      !.steps = Append(@, "countdown")]]
    /\ UNCHANGED <<store, hb, cn, settled, aux>>

\* scheduler.py 137, 169: the results cannot be delivered; nothing catches the
\* exception of channel.send, which leaves _post_results,
\* _start_ready_races and tick().
TickPostResultsFails ==
    /\ st["tick"].pc = "results"
    /\ used.fail < MaxFails
    /\ used' = [used EXCEPT !.fail = @ + 1]
    /\ st' = [st EXCEPT !["tick"] = Raised("tick")]
    /\ UNCHANGED <<store, hb, cn, settled, aux>>

\* scheduler.py 138-142, 183-186: a bettor cannot be reached; the loop of
\* _dm_payouts continues with the next bet.
TickDmFails ==
    /\ st["tick"].pc = "dm"
    /\ used.fail < MaxFails
    /\ used' = [used EXCEPT !.fail = @ + 1]
    /\ st' = [st EXCEPT !["tick"] = [@ EXCEPT !.pc = "next", !.race = 0,
                                      !.dm = <<>>, !.log = <<>>,
                                      !.rb = <<>>, !.winner = 0]]
    /\ UNCHANGED <<store, hb, cn, settled, aux>>

\* --------------------------------------------------------- admin commands
\* cogs/derby.py 221-224
AddRacer(owner) ==
    /\ used.ops < MaxOps
    /\ InFlight < MaxInFlight
    /\ used' = [used EXCEPT !.ops = @ + 1]
    /\ racers' = Put(racers, NextId(racers),
                     [retired |-> FALSE, owner |-> owner, gen |-> 0])
    /\ UNCHANGED <<races, bets, wallets, hb, st, cn, settled, aux>>

\* cogs/derby.py 239-242
StartRace ==
    /\ used.ops < MaxOps
    /\ InFlight < MaxInFlight
    /\ used' = [used EXCEPT !.ops = @ + 1, !.made = @ + 1]
    /\ races' = Put(races, NextId(races), [finished |-> FALSE])
    /\ settled' = Drop(settled, {NextId(races)})
    /\ UNCHANGED <<racers, bets, wallets, hb, st, cn, aux>>

\* cogs/derby.py 247-256: cancel_race is invoked and selects the first
\* unfinished race.
CancelSelect ==
    /\ cn.pc = "idle"
    /\ used.ops < MaxOps
    /\ InFlight < MaxInFlight
    /\ used' = [used EXCEPT !.ops = @ + 1]
    /\ cn' = [pc |-> IF FirstUnfinished = 0 THEN "send" ELSE "delete",
              race |-> FirstUnfinished]
    /\ UNCHANGED <<store, hb, st, settled, aux>>

\* cogs/derby.py 257, repositories.py 41-45: delete_race finds the race in the
\* identity map and DELETEs its row; the bets table is not touched.
CancelDelete ==
    /\ cn.pc = "delete"
    /\ races' = Drop(races, {cn.race})
    /\ cn' = [cn EXCEPT !.pc = "send"]
    /\ st' = [p \in Settlers |->
                IF cn.race \in st[p].listed \cup {st[p].race}
                THEN [st[p] EXCEPT !.gone = @ \cup {cn.race}] ELSE st[p]]
    /\ UNCHANGED <<racers, bets, wallets, hb, used, settled, aux>>

\* cogs/derby.py 255, 258
CancelSend ==
    /\ cn.pc = "send"
    /\ cn' = [pc |-> "idle", race |-> 0]
    /\ UNCHANGED <<store, hb, st, used, settled, aux>>

\* ---------------------------------------------------- _stream_commentary
MaxLog == 3                  \* the longest log streamed
Events == {"E1", "E2"}       \* the lines a log is made of

\* The logs handed to _stream_commentary.
Logs == UNION {[1..n -> Events] : n \in 0..MaxLog}

\* Locals of one _stream_commentary call and the channel it sends to.  log is
\* the argument; pos the number of entries taken from iter(log); event the
\* entry being sent; sink the descriptions the channel has received; timer:
\* the tasks.Loop has been started and not yet cancelled; why: what set done;
\* out: how the call ended.  History: delPos and delSent are pos and the
\* number of events received when the race's row was deleted (-1: it was not);
\* polls is the number of look-ups of the race begun.
IdleCm ==
    [pc |-> "idle", race |-> 0, log |-> <<>>, pos |-> 0, event |-> "",
     sink |-> <<>>, timer |-> FALSE, why |-> "none", out |-> "none",
     delPos |-> -1, delSent |-> -1, polls |-> 0]

\* scheduler.py 230-235: done is set: the loop is cancelled and the call
\* returns.
Stopped(c, why) ==
    [c EXCEPT !.pc = "done", !.why = why, !.timer = FALSE, !.out = "returned"]

\* A faulty NextEvent: the last entry of the log.
NextEventLast(log, pos) == log[Len(log)]

\* scheduler.py 200, 213: next(events)
NextEvent(log, pos) == log[pos + 1]

\* A faulty SendNextCheck: the race is looked up for the first event only.
SendNextCheckOnce ==
    /\ cm.pc = "check"
    /\ LET c == [cm EXCEPT !.polls = @ + 1]
       IN  cm' = IF cm.pos = 0 /\ cm.race \notin DOMAIN races
                 THEN Stopped(c, "deleted")
                 ELSE IF cm.pos = Len(cm.log) THEN Stopped(c, "exhausted")
                 ELSE [c EXCEPT !.pc = "send", !.pos = @ + 1,
                                !.event = NextEvent(cm.log, cm.pos)]
    /\ UNCHANGED <<store, hb, st, cn, used, settled, sim, course_segments>>

\* scheduler.py 204-219: send_next, called once directly (229) and then by the
\* loop every delay seconds: a session looks the race up; no row, or no entry
\* left in the log, sets done; otherwise the next entry is taken.
SendNextCheck ==
    /\ cm.pc = "check"
    /\ LET c == [cm EXCEPT !.polls = @ + 1]
       IN  cm' = IF cm.race \notin DOMAIN races THEN Stopped(c, "deleted")
                 ELSE IF cm.pos = Len(cm.log) THEN Stopped(c, "exhausted")
                 ELSE [c EXCEPT !.pc = "send", !.pos = @ + 1,
                                !.event = NextEvent(cm.log, cm.pos)]
    /\ UNCHANGED <<store, hb, st, cn, used, settled, sim, course_segments>>

\* A faulty SendNextEmit: after a failed delivery the loop goes on.
SendNextEmitGoesOn(ok) ==
    /\ cm.pc = "send"
    /\ cm' = IF ok
             THEN [cm EXCEPT !.pc = "check", !.sink = Append(@, cm.event),
                             !.timer = TRUE]
             ELSE [cm EXCEPT !.pc = "check", !.why = "failed", !.timer = TRUE]
    /\ UNCHANGED <<store, hb, st, cn, used, settled, sim, course_segments>>

\* scheduler.py 219-233: channel.send(embed) delivers the entry (ok), or
\* raises discord.Forbidden or discord.HTTPException, which sets done.  After
\* the first delivery the loop is started.
SendNextEmit(ok) ==
    /\ cm.pc = "send"
    /\ cm' = IF ok
             THEN [cm EXCEPT !.pc = "check", !.sink = Append(@, cm.event),
                             !.timer = TRUE]
             ELSE Stopped(cm, "failed")
    /\ UNCHANGED <<store, hb, st, cn, used, settled, sim, course_segments>>

\* scheduler.py 204-233: get_race or channel.send raises an exception that
\* send_next does not catch (a storage error, a connection error); done is not
\* set.  Raised by the direct call (229), it leaves _stream_commentary.  Raised
\* in the started loop, it is left to tasks.Loop: the loop either ends, and
\* _stream_commentary waits for done (233) with its entry in commentaries, or
\* calls send_next again (again).  An entry taken from the log is not put
\* back.
SendNextRaises(again) ==
    /\ cm.pc \in {"check", "send"}
    /\ used.fail < MaxFails
    /\ used' = [used EXCEPT !.fail = @ + 1]
    /\ LET c == [cm EXCEPT !.polls = IF cm.pc = "check" THEN @ + 1 ELSE @,
                           !.why = "raised"]
       IN  cm' = IF ~cm.timer
                 THEN [c EXCEPT !.pc = "done", !.out = "raised"]
                 ELSE IF again THEN [c EXCEPT !.pc = "check"]
                 ELSE [c EXCEPT !.pc = "blocked"]
    /\ UNCHANGED <<store, hb, st, cn, settled, sim, course_segments>>

\* repositories.py 41-45, 102-103: delete_race from another coroutine while
\* the commentary runs (tests/derby/test_scheduler.py 132-135).
DeleteRace ==
    /\ cm.pc \in {"check", "send"}
    /\ cm.race \in DOMAIN races
    /\ races' = Drop(races, {cm.race})
    /\ cm' = [cm EXCEPT !.delPos = cm.pos, !.delSent = Len(cm.sink)]
    /\ UNCHANGED <<racers, bets, wallets, hb, st, cn, used, settled, sim, course_segments>>

\* ------------------------------------------------------- get_race_history
Limits == {1, 2}             \* the limit argument of get_race_history

\* repositories.py 196-197: .order_by(Race.id.desc()).limit(n), as ids
RECURSIVE TopDescending(_, _)
TopDescending(S, n) ==
    IF S = {} \/ n <= 0 THEN <<>>
    ELSE <<Max(S)>> \o TopDescending(S \ {Max(S)}, n - 1)

\* sum(b.amount * 2 for b in bets if b.racer_id == winner), bs: bet id -> row
RECURSIVE SumDoubled(_, _, _)
SumDoubled(bs, B, winner) ==
    IF B = {} THEN 0
    ELSE LET b == Min(B)
         IN  (IF bs[b].racer_id = winner THEN bs[b].amount * 2 ELSE 0)
             + SumDoubled(bs, B \ {b}, winner)

\* repositories.py 183-212, of the store (rs, bs): the finished races of the
\* guild, highest ids first, at most limit of them, each with the lowest
\* racer id among the bets stored for it (0 stands for None) and twice the
\* amounts of the bets on that racer.
get_race_history(rs, bs, limit) ==
    LET ids == TopDescending({r \in DOMAIN rs : rs[r].finished}, limit)
        of(r) == {b \in DOMAIN bs : bs[b].race_id = r}
        winner(r) == IF of(r) = {} THEN 0
                     ELSE Min({bs[b].racer_id : b \in of(r)})
    IN  [i \in 1..Len(ids) |->
            [race |-> ids[i], winner |-> winner(ids[i]),
             payout |-> IF of(ids[i]) = {} THEN 0
                        ELSE SumDoubled(bs, of(ids[i]), winner(ids[i]))]]

\* ----------------------------------------------- calls of simulate_race
\* The caller of simulate_race: racers is the list it passes, k and seed the
\* other arguments, g the state of the module's generator (random.sample and
\* random.randint draw from it), outs the results returned so far.  History:
\* arg is the list as first passed, calls the number of invocations, at the
\* states g was in at the invocations, raised whether an invocation raised.
\* seed is 0 when there is no caller.
IdleSim ==
    [racers |-> <<>>, arg |-> <<>>, k |-> 0, seed |-> 0, g |-> 0, outs |-> {},
     calls |-> 0, at |-> {}, raised |-> FALSE]

\* scheduler.py 122, cogs/derby.py 167 and 311: one invocation.
Simulate ==
    /\ sim.seed # 0
    /\ sim.calls < MaxCalls
    /\ LET res == simulate_race(sim.racers, sim.k, sim.seed, sim.g)
       IN  sim' = [sim EXCEPT !.racers = res.racers,
                              !.outs = IF res.raised THEN @
                                       ELSE @ \cup {[placements |-> res.placements,
                                                     log |-> res.log]},
                              !.raised = @ \/ res.raised,
                              !.calls = @ + 1, !.at = @ \cup {sim.g}]
    /\ UNCHANGED <<store, hb, st, cn, used, settled, cm, course_segments>>

\* scheduler.py 114 and 242, cogs/derby.py 309 and 318: random.sample or
\* random.randint draws from the module's generator.
GlobalDraw ==
    /\ sim.seed # 0
    /\ sim' = [sim EXCEPT !.g = Advance(@)]
    /\ UNCHANGED <<store, hb, st, cn, used, settled, cm, course_segments>>

\* ---------------------------------------------------------- specification
Init ==
    /\ races = <<>>
    /\ racers = <<>>
    /\ bets = <<>>
    /\ wallets = <<>>
    /\ hb = [h \in Handlers |-> IdleBet]
    /\ st = [p \in Settlers |-> IdleSt]
    /\ cn = [pc |-> "idle", race |-> 0]
    /\ used = [ops |-> 0, fail |-> 0, made |-> 0]
    /\ settled = <<>>
    /\ cm = IdleCm
    /\ sim = IdleSim
    /\ course_segments = <<>>

Next ==
    \/ \E h \in Handlers, u \in Users, r \in 1..NextId(racers), a \in Amounts :
            BetSelectRace(h, u, r, a)
    \/ \E h \in Handlers : BetSelectRacers(h)
    \/ \E h \in Handlers : BetGetWallet(h)
    \/ \E h \in Handlers : BetCreateWallet(h)
    \/ \E h \in Handlers : BetSelectBet(h)
    \/ \E h \in Handlers : BetCommitReject(h)
    \/ \E h \in Handlers : BetCommitDebit(h)
    \/ \E h \in Handlers : BetWriteBet(h)
    \/ \E h \in Handlers : BetSend(h)
    \/ \E h \in Handlers, u \in Users : WalletGet(h, u)
    \/ \E h \in Handlers : WalletCreate(h)
    \/ TickBegin
    \/ TickCreateRace
    \/ TickLoadRaces
    \/ TickLoadRacers
    \/ TickOpenBetting
    \/ TickCountdown
    \/ TickLoadBets
    \/ TickStream
    \/ TickPostResults
    \/ TickDm
    \/ \E arg \in 0..NextId(races) : ForceSelectRace(arg)
    \/ ForceSelectRacers
    \/ ForceSend
    \/ \E p \in Settlers : MarkFinished(p)
    \/ \E p \in Settlers : ResolveLoad(p)
    \/ \E p \in Settlers : ResolveGetWallet(p)
    \/ \E p \in Settlers : ResolveCommit(p)
    \/ \E p \in Settlers, draw \in Draws : Retire(p, draw)
    \/ \E p \in Settlers : Finish(p)
    \/ \E owner \in Owners : AddRacer(owner)
    \/ StartRace
    \/ CancelSelect
    \/ CancelDelete
    \/ CancelSend

Spec == Init /\ [][Next]_vars

\* The interleavings of Spec in the behaviours of at most MaxOverlapOps
\* invocations.
ShortRun == used'.ops <= MaxOverlapOps

SpecOverlap == Init /\ [][Next /\ ShortRun]_vars

\* Commands run one at a time: a command that has been invoked replies before
\* any other coroutine takes a step, and the tick yields to commands only
\* while it sleeps in a betting window.
Busy ==
    {<<"bet", h>> : h \in {h \in Handlers : hb[h].pc # "idle"}}
    \cup {<<"st", p>> : p \in {p \in Settlers : st[p].pc \notin {"idle", "stopped", "betting"}}}
    \cup (IF st["force"].pc = "betting" THEN {<<"st", "force">>} ELSE {})
    \cup (IF cn.pc # "idle" THEN {<<"cn", 0>>} ELSE {})

Moves(x) ==
    CASE x[1] = "bet" -> hb'[x[2]] # hb[x[2]]
      [] x[1] = "st" -> st'[x[2]] # st[x[2]]
      [] OTHER -> cn' # cn

SerialStep == Busy = {} \/ \E x \in Busy : Moves(x)

SpecSerial == Init /\ [][Next /\ SerialStep]_vars

\* A store written through the repository API, as tests/derby/test_logic.py
\* 38-54 writes it before calling resolve_payouts: two racers, a race, a bet of
\* user 1 on racer 1 and a bet of user 2 on racer 2, and a wallet for user 1
\* only.
InitSeeded ==
    /\ races = <<[finished |-> FALSE]>>
    /\ racers = <<[retired |-> FALSE, owner |-> 1, gen |-> 0],
                  [retired |-> FALSE, owner |-> 2, gen |-> 0]>>
    /\ bets = <<[race_id |-> 1, user_id |-> 1, racer_id |-> 1, amount |-> 10],
                [race_id |-> 1, user_id |-> 2, racer_id |-> 2, amount |-> 20]>>
    /\ wallets = <<50>>
    /\ hb = [h \in Handlers |-> IdleBet]
    /\ st = [p \in Settlers |-> IdleSt]
    /\ cn = [pc |-> "idle", race |-> 0]
    /\ used = [ops |-> 0, fail |-> 0, made |-> 1]
    /\ settled = <<>>
    /\ cm = IdleCm
    /\ sim = IdleSim
    /\ course_segments = <<>>

\* The tick and force-start, with injected storage errors.
NextSettle ==
    \/ TickBegin
    \/ TickCreateRace
    \/ TickLoadRaces
    \/ TickLoadRacers
    \/ TickOpenBetting
    \/ TickCountdown
    \/ TickLoadBets
    \/ TickStream
    \/ TickPostResults
    \/ TickDm
    \/ \E arg \in 0..NextId(races) : ForceSelectRace(arg)
    \/ ForceSelectRacers
    \/ ForceSend
    \/ \E p \in Settlers : MarkFinished(p)
    \/ \E p \in Settlers : ResolveLoad(p)
    \/ \E p \in Settlers : ResolveGetWallet(p)
    \/ \E p \in Settlers : ResolveCommit(p)
    \/ \E p \in Settlers : ResolveFail(p)
    \/ \E p \in Settlers, draw \in Draws : Retire(p, draw)
    \/ \E p \in Settlers : Finish(p)

\* Settlement of the seeded store.
SpecSeeded == InitSeeded /\ [][NextSettle]_vars

\* The seeded store, the race with one or more CourseSegment rows written by
\* create_course_segment (repositories.py 141-142).
InitCourse ==
    /\ races = <<[finished |-> FALSE]>>
    /\ racers = <<[retired |-> FALSE, owner |-> 1, gen |-> 0],
                  [retired |-> FALSE, owner |-> 2, gen |-> 0]>>
    /\ bets = <<[race_id |-> 1, user_id |-> 1, racer_id |-> 1, amount |-> 10],
                [race_id |-> 1, user_id |-> 2, racer_id |-> 2, amount |-> 20]>>
    /\ wallets = <<50>>
    /\ hb = [h \in Handlers |-> IdleBet]
    /\ st = [p \in Settlers |-> IdleSt]
    /\ cn = [pc |-> "idle", race |-> 0]
    /\ used = [ops |-> 0, fail |-> 0, made |-> 1]
    /\ settled = <<>>
    /\ cm = IdleCm
    /\ sim = IdleSim
    /\ \E k \in 1..MaxSegments : course_segments = <<k>>

\* Settlement of a race that has course segments.
SpecCourse == InitCourse /\ [][NextSettle]_vars

\* A store with one unfinished race and a stable of active racers, written
\* through the repository API.
InitField ==
    /\ races = <<[finished |-> FALSE]>>
    /\ \E n \in 1..MaxField :
            racers = [r \in 1..n |-> [retired |-> FALSE, owner |-> 1, gen |-> 0]]
    /\ bets = <<>>
    /\ wallets = <<>>
    /\ hb = [h \in Handlers |-> IdleBet]
    /\ st = [p \in Settlers |-> IdleSt]
    /\ cn = [pc |-> "idle", race |-> 0]
    /\ used = [ops |-> 0, fail |-> 0, made |-> 1]
    /\ settled = <<>>
    /\ cm = IdleCm
    /\ sim = IdleSim
    /\ course_segments = <<>>

\* The tick and force-start up to the simulation of the race.
NextField ==
    \/ TickBegin
    \/ TickCreateRace
    \/ TickLoadRaces
    \/ TickLoadRacers
    \/ TickOpenBetting
    \/ TickCountdown
    \/ \E arg \in 0..NextId(races) : ForceSelectRace(arg)
    \/ ForceSelectRacers
    \/ ForceSend
    \/ \E p \in Settlers : MarkFinished(p)

\* The selection of the participants from stables of every size.
SpecField == InitField /\ [][NextField]_vars

\* The tick alone: no command is invoked and no error is injected.
NextDay ==
    \/ TickBegin
    \/ TickCreateRace
    \/ TickLoadRaces
    \/ TickLoadRacers
    \/ TickOpenBetting
    \/ TickCountdown
    \/ MarkFinished("tick")
    \/ TickLoadBets
    \/ ResolveLoad("tick")
    \/ ResolveGetWallet("tick")
    \/ ResolveCommit("tick")
    \/ \E draw \in Draws : Retire("tick", draw)
    \/ Finish("tick")
    \/ TickStream
    \/ TickPostResults
    \/ TickDm

\* The ticks of the task loop on the seeded store.
SpecDay == InitSeeded /\ [][NextDay]_vars

\* A store as tests/test_derby_cog.py 80-92 has it after the first bet of
\* test_race_bet: a race, two racers, and the author's wallet of 80 with a bet
\* of 20 on racer 1 (the author is user 1 here).
InitWager ==
    /\ races = <<[finished |-> FALSE]>>
    /\ racers = <<[retired |-> FALSE, owner |-> 1, gen |-> 0],
                  [retired |-> FALSE, owner |-> 2, gen |-> 0]>>
    /\ bets = <<[race_id |-> 1, user_id |-> 1, racer_id |-> 1, amount |-> 20]>>
    /\ wallets = <<80>>
    /\ hb = [h \in Handlers |-> IdleBet]
    /\ st = [p \in Settlers |-> IdleSt]
    /\ cn = [pc |-> "idle", race |-> 0]
    /\ used = [ops |-> 0, fail |-> 0, made |-> 1]
    /\ settled = <<>>
    /\ cm = IdleCm
    /\ sim = IdleSim
    /\ course_segments = <<>>

\* The amounts of Amounts that are valid stakes.
Stakes == {a \in Amounts : a > 0}

\* race_bet with valid amounts, start_race and force-start.
NextWager ==
    \/ \E h \in Handlers, u \in Users, r \in 1..NextId(racers), a \in Stakes :
            BetSelectRace(h, u, r, a)
    \/ \E h \in Handlers : BetSelectRacers(h)
    \/ \E h \in Handlers : BetGetWallet(h)
    \/ \E h \in Handlers : BetCreateWallet(h)
    \/ \E h \in Handlers : BetSelectBet(h)
    \/ \E h \in Handlers : BetCommitReject(h)
    \/ \E h \in Handlers : BetCommitDebit(h)
    \/ \E h \in Handlers : BetWriteBet(h)
    \/ \E h \in Handlers : BetSend(h)
    \/ StartRace
    \/ \E arg \in 0..NextId(races) : ForceSelectRace(arg)
    \/ ForceSelectRacers
    \/ ForceSend
    \/ MarkFinished("force")
    \/ ResolveLoad("force")
    \/ ResolveGetWallet("force")
    \/ ResolveCommit("force")
    \/ \E draw \in Draws : Retire("force", draw)
    \/ Finish("force")

WagerRun == used'.ops <= MaxWagerOps

\* Wagers and a settlement on the store of InitWager, in any interleaving, in
\* the behaviours of at most MaxWagerOps invocations.
SpecWager == InitWager /\ [][NextWager /\ WagerRun]_vars

\* The tick alone, with notifications that may fail.
NextNotify ==
    \/ TickBegin
    \/ TickCreateRace
    \/ TickLoadRaces
    \/ TickLoadRacers
    \/ TickOpenBetting
    \/ TickAnnounceFails
    \/ TickCountdown
    \/ TickCountdownFails
    \/ MarkFinished("tick")
    \/ TickLoadBets
    \/ ResolveLoad("tick")
    \/ ResolveGetWallet("tick")
    \/ ResolveCommit("tick")
    \/ \E draw \in Draws : Retire("tick", draw)
    \/ Finish("tick")
    \/ TickStream
    \/ TickPostResults
    \/ TickPostResultsFails
    \/ TickDm
    \/ TickDmFails

\* Ticks on the seeded store, with failing notifications.
SpecNotify == InitSeeded /\ [][NextNotify]_vars

\* The wallet command, race_bet with valid amounts, start_race and
\* force-start.
NextPurse ==
    \/ \E h \in Handlers, u \in Users, r \in 1..NextId(racers), a \in Stakes :
            BetSelectRace(h, u, r, a)
    \/ \E h \in Handlers : BetSelectRacers(h)
    \/ \E h \in Handlers : BetGetWallet(h)
    \/ \E h \in Handlers : BetCreateWallet(h)
    \/ \E h \in Handlers : BetSelectBet(h)
    \/ \E h \in Handlers : BetCommitReject(h)
    \/ \E h \in Handlers : BetCommitDebit(h)
    \/ \E h \in Handlers : BetWriteBet(h)
    \/ \E h \in Handlers : BetSend(h)
    \/ \E h \in Handlers, u \in Users : WalletGet(h, u)
    \/ \E h \in Handlers : WalletCreate(h)
    \/ \E arg \in 0..NextId(races) : ForceSelectRace(arg)
    \/ ForceSelectRacers
    \/ ForceSend
    \/ MarkFinished("force")
    \/ ResolveLoad("force")
    \/ ResolveGetWallet("force")
    \/ ResolveCommit("force")
    \/ \E draw \in Draws : Retire("force", draw)
    \/ Finish("force")
    \/ StartRace

\* Commands, one at a time, on the seeded store: a bettor without a wallet
\* may get one from the wallet command, from race_bet or from settlement.
SpecPurse == InitSeeded /\ [][NextPurse /\ SerialStep]_vars

\* The store of tests/derby/test_scheduler.py 107-113 and 125-138: one race,
\* and _stream_commentary called for it with some log.
InitCommentary ==
    /\ races = <<[finished |-> FALSE]>>
    /\ racers = <<>>
    /\ bets = <<>>
    /\ wallets = <<>>
    /\ hb = [h \in Handlers |-> IdleBet]
    /\ st = [p \in Settlers |-> IdleSt]
    /\ cn = [pc |-> "idle", race |-> 0]
    /\ used = [ops |-> 0, fail |-> 0, made |-> 1]
    /\ settled = <<>>
    /\ \E log \in Logs : cm = [IdleCm EXCEPT !.pc = "check", !.race = 1,
                                              !.log = log]
    /\ sim = IdleSim
    /\ course_segments = <<>>

NextCommentary ==
    \/ SendNextCheck
    \/ \E ok \in BOOLEAN : SendNextEmit(ok)
    \/ DeleteRace

\* One commentary, with deliveries that may fail and a race that may be
\* deleted under it.
SpecCommentary == InitCommentary /\ [][NextCommentary]_vars

NextCommentaryFaults ==
    \/ SendNextCheck
    \/ \E ok \in BOOLEAN : SendNextEmit(ok)
    \/ \E again \in BOOLEAN : SendNextRaises(again)
    \/ DeleteRace

\* One commentary in which the look-up of the race or the delivery may also
\* raise an exception send_next does not catch.
SpecCommentaryFaults == InitCommentary /\ [][NextCommentaryFaults]_vars

\* simulate_race with any participant list, segment count and seed.
InitSim ==
    /\ races = <<>>
    /\ racers = <<>>
    /\ bets = <<>>
    /\ wallets = <<>>
    /\ hb = [h \in Handlers |-> IdleBet]
    /\ st = [p \in Settlers |-> IdleSt]
    /\ cn = [pc |-> "idle", race |-> 0]
    /\ used = [ops |-> 0, fail |-> 0, made |-> 0]
    /\ settled = <<>>
    /\ cm = IdleCm
    /\ \E list \in RacerLists, k \in 0..MaxSegments, seed \in Seeds :
            sim = [IdleSim EXCEPT !.racers = list, !.arg = list, !.k = k,
                                  !.seed = seed]
    /\ course_segments = <<>>

NextSim == Simulate \/ GlobalDraw

\* Invocations of simulate_race with the same arguments, with draws from the
\* module's generator in between.
SpecSim == InitSim /\ [][NextSim]_vars

\* ------------------------------------------------------------ properties
\* The amount of the author's bet on the race when the command was invoked
\* (0 when there was none).
PriorStake(h) ==
    IF DOMAIN hb[h].preB = {} THEN 0
    ELSE hb[h].preB[Min(DOMAIN hb[h].preB)].amount

\* The author's bets on the command's race, as stored now.
StoredBets(h) == [b \in BetsOf(hb[h].race, hb[h].user) |-> bets[b]]

\* race_bet has passed its two early returns and is about to reply.
Decided(h) == hb[h].pc = "send" /\ hb[h].out \in {"placed", "insufficient"}

\* C1: in every committed state reachable by wallet creation, race_bet,
\* settlement and cancel_race, every wallet balance is at least 0.
C1_BalancesNonNegative == \A u \in DOMAIN wallets : wallets[u] >= 0

\* C2: at most one bet row exists per (race, bettor) pair in every reachable
\* state, also when two race_bet invocations of one user interleave; stated
\* for the bets with a valid amount.
C2_OneBetPerRaceAndBettor ==
    \A b1, b2 \in DOMAIN bets :
        (/\ bets[b1].race_id = bets[b2].race_id
         /\ bets[b1].user_id = bets[b2].user_id
         /\ bets[b1].amount > 0 /\ bets[b2].amount > 0)
            => b1 = b2

\* C3: race_bet for amount a by a user with balance b and an existing bet of
\* amount p on the race (0 if none) is accepted exactly when a <= b + p; when
\* accepted the balance is b + p - a and the user's single bet on the race has
\* the new racer and the amount a.  Stated for the commands that found a race
\* and the racer, when they reply.
C3_RaceBetContract ==
    \A h \in Handlers :
        Decided(h) =>
            LET a == hb[h].amount
                b == hb[h].preBal
                p == PriorStake(h)
                mine == BetsOf(hb[h].race, hb[h].user)
            IN  /\ hb[h].out = "placed" <=> a <= b + p
                /\ hb[h].out = "placed" =>
                        /\ wallets[hb[h].user] = b + p - a
                        /\ Cardinality(mine) = 1
                        /\ \A x \in mine : /\ bets[x].racer_id = hb[h].racer
                                            /\ bets[x].amount = a

\* C3 witness: a positive bet that replaced the author's bet on another racer
\* has been accepted.
C3_Rebet ==
    \E h \in Handlers :
        /\ Decided(h) /\ hb[h].out = "placed"
        /\ hb[h].amount > 0
        /\ DOMAIN hb[h].preB # {}
        /\ \A x \in DOMAIN hb[h].preB : hb[h].preB[x].racer_id # hb[h].racer

\* C4: a race_bet rejected for insufficient funds leaves the bettor's balance
\* equal to the balance before the command (the refund is not kept); stated
\* for the rebets whose existing bet has a valid amount.
C4_RejectionKeepsBalance ==
    \A h \in Handlers :
        (Decided(h) /\ hb[h].out = "insufficient" /\ PriorStake(h) >= 0)
            => /\ hb[h].user \in DOMAIN wallets
               /\ wallets[hb[h].user] = hb[h].preBal

\* C5: a race_bet rejected for insufficient funds leaves the bettor's existing
\* bet on the race unchanged (same racer, same amount) and creates no new bet.
C5_RejectionKeepsBets ==
    \A h \in Handlers :
        (Decided(h) /\ hb[h].out = "insufficient") => StoredBets(h) = hb[h].preB

\* C5 witness: a rebet has been rejected while the author holds a bet on the
\* race.
C5_RejectedRebet ==
    \E h \in Handlers :
        /\ Decided(h) /\ hb[h].out = "insufficient"
        /\ DOMAIN hb[h].preB # {}
        /\ hb[h].amount # PriorStake(h)

\* C6: a race_bet with amount <= 0 is rejected and changes no wallet and no
\* bet; every stored bet has an amount of at least 1.
C6_StoredAmountsPositive == \A b \in DOMAIN bets : bets[b].amount >= 1

\* Twice the amounts of user u's bets among B on racer w.
RECURSIVE SumPayout(_, _, _, _)
SumPayout(rb, B, u, w) ==
    IF B = {} THEN 0
    ELSE LET b == Min(B)
         IN  (IF rb[b].user_id = u /\ rb[b].racer_id = w
              THEN 2 * rb[b].amount ELSE 0) + SumPayout(rb, B \ {b}, u, w)

\* The stored balance of u when resolve_payouts began, counting the wallet it
\* creates for a bettor without one.
BalanceBefore(p, u) ==
    IF u \in DOMAIN st[p].w0 THEN st[p].w0[u] ELSE NewWalletBalance

\* C7: settling a race with bets declares the minimum racer id among its bets
\* the winner, credits the wallet of each bet on the winner with exactly twice
\* the bet's amount, and leaves the balance of every other bettor unchanged.
C7_SettlementCredits ==
    \A p \in Settlers :
        (st[p].pc = "retire" /\ DOMAIN st[p].rb # {}) =>
            LET rb == st[p].rb
                w == Min({rb[b].racer_id : b \in DOMAIN rb})
            IN  /\ st[p].winner = w
                /\ \A u \in {rb[b].user_id : b \in DOMAIN rb} :
                        /\ u \in DOMAIN wallets
                        /\ wallets[u] = BalanceBefore(p, u)
                                            + SumPayout(rb, DOMAIN rb, u, w)

\* C7 witness: a settlement has paid a bet on the lower of two racers and
\* not the other bettor's bet on the higher one.
C7_WinnerAndLoser ==
    \E p \in Settlers :
        /\ st[p].pc = "retire"
        /\ \E b1, b2 \in DOMAIN st[p].rb :
                /\ st[p].rb[b1].racer_id < st[p].rb[b2].racer_id
                /\ st[p].rb[b1].user_id # st[p].rb[b2].user_id
                /\ st[p].rb[b1].amount > 0 /\ st[p].rb[b2].amount > 0

\* C8, after resolve_payouts has returned and until the coroutine moves on,
\* no bet of the race is stored.
SettledRaceHasNoBets ==
    \A p \in Settlers : st[p].pc = "retire" => BetsOfRace(st[p].race) = {}

\* C8, a step of resolve_payouts on a race it has settled before returns at
\* once and changes no race, racer, bet or wallet.
ResettleIsNoOp ==
    \A p \in Settlers :
        (st[p].pc = "resolve" /\ st[p].race \in DOMAIN settled /\ st'[p] # st[p])
            => (store' = store /\ st'[p].pc = "retire")

\* C8: after resolve_payouts(race) completes zero bets remain for the race,
\* and invoking resolve_payouts again on the same race is a no-op: no wallet,
\* bet, race or racer changes.
C8_SettleOnce == []SettledRaceHasNoBets /\ [][ResettleIsNoOp]_vars

\* C8 witness: the tick is about to call resolve_payouts on a race whose bets
\* force-start has already resolved.
C8_AboutToResettle ==
    /\ st["tick"].pc = "resolve"
    /\ st["tick"].race \in DOMAIN settled
    /\ settled[st["tick"].race] # {}

\* What a failed resolve_payouts has left in the store: every bet it loaded
\* is still stored and no wallet it found has changed, or every bet is
\* deleted and every bettor credited.
AllOrNothing(p) ==
    LET rb == st[p].rb
    IN  \/ /\ \A b \in DOMAIN rb : b \in DOMAIN bets /\ bets[b] = rb[b]
           /\ \A u \in DOMAIN st[p].w0 : wallets[u] = st[p].w0[u]
        \/ /\ \A b \in DOMAIN rb : b \notin DOMAIN bets
           /\ \A u \in {rb[b].user_id : b \in DOMAIN rb} :
                  /\ u \in DOMAIN wallets
                  /\ wallets[u] = BalanceBefore(p, u)
                        + SumPayout(rb, DOMAIN rb, u, WinningRacer(rb))

\* C9: when a storage error occurs inside resolve_payouts, also while a
\* missing wallet is being created for a later bet, the committed state has
\* all of the race's bets credited and deleted or none of them.
C9_FailureIsAllOrNothing ==
    [][\A p \in Settlers :
            (st[p].pc \in {"resolve", "get_wallet", "commit"}
                /\ st'[p].pc \in {"send", "stopped"}) => AllOrNothing(p)]_vars

\* C10: once a race is marked finished and its settlement has completed, no
\* stored bet references it, under any interleaving of race_bet with the tick
\* or force-start; stated for the bets with a valid amount.
C10_NoBetOutlivesSettlement ==
    \A b \in DOMAIN bets :
        ~ /\ bets[b].amount > 0
          /\ bets[b].race_id \in DOMAIN settled
          /\ bets[b].race_id \in DOMAIN races
          /\ races[bets[b].race_id].finished

\* The amounts of the bets B, added up.
RECURSIVE SumAmounts(_)
SumAmounts(B) ==
    IF B = {} THEN 0 ELSE bets[Min(B)].amount + SumAmounts(B \ {Min(B)})

\* C11: two concurrent race_bet invocations by one user on one race cannot
\* double-spend the refund of the prior bet: when both have completed, the
\* balance plus the amount of the user's bets on the race equals the balance
\* plus the prior bet's amount before either began.  Stated for two accepted
\* commands that were invoked on the same balance and the same prior bet.
C11_RefundSpentOnce ==
    \A h1, h2 \in Handlers :
        (/\ h1 # h2
         /\ Decided(h1) /\ hb[h1].out = "placed"
         /\ Decided(h2) /\ hb[h2].out = "placed"
         /\ hb[h1].user = hb[h2].user /\ hb[h1].race = hb[h2].race
         /\ hb[h1].preBal = hb[h2].preBal /\ hb[h1].preB = hb[h2].preB
         /\ DOMAIN hb[h1].preB # {})
            => wallets[hb[h1].user]
                    + SumAmounts(BetsOf(hb[h1].race, hb[h1].user))
               = hb[h1].preBal + PriorStake(h1)

\* C12: financial updates to one wallet are serialized: when a race_bet debit
\* and a settlement credit on the same wallet overlap, the final balance is
\* the result of applying both, in either order.  Stated for an accepted first
\* bet on one race and the completed settlement of another race, both still
\* in flight, that found the same balance.
C12_DebitAndCreditBothApplied ==
    \A h \in Handlers, p \in Settlers :
        (/\ Decided(h) /\ hb[h].out = "placed" /\ hb[h].ex = 0
         /\ st[p].pc = "retire" /\ DOMAIN st[p].rb # {}
         /\ hb[h].race # st[p].race
         /\ hb[h].user \in DOMAIN st[p].w0
         /\ st[p].w0[hb[h].user] = hb[h].bal0)
            => wallets[hb[h].user]
               = hb[h].bal0 - hb[h].amount
                    + SumPayout(st[p].rb, DOMAIN st[p].rb, hb[h].user, st[p].winner)

\* C13, a tick creates a race only while fewer than race_frequency races of
\* the day are stored, and what it creates is one unfinished race.
QuotaCreate ==
    (st["tick"].pc = "create" /\ races' # races) =>
        /\ Cardinality(DOMAIN races) < race_frequency
        /\ \E x \in DOMAIN races' \ DOMAIN races :
                races' = Put(races, x, [finished |-> FALSE])

\* C13, a tick ends its creation of races only when race_frequency races of
\* the day, finished or not, are stored.
QuotaDone ==
    (st["tick"].pc = "create" /\ st'["tick"].pc # "create") =>
        Cardinality(DOMAIN races) >= race_frequency

\* C13: tick() creates exactly max(0, race_frequency - c) new unfinished
\* races, c being the number of the guild's races created today that are
\* stored, finished or not (a cancelled race is deleted and no longer
\* counts); a second tick of the day creates no race when none was created
\* or cancelled in between.
C13_DailyQuota == [][QuotaCreate /\ QuotaDone]_vars

\* C13 as stated, c being the number of races created today, those cancel_race
\* has deleted included: a tick creates a race only while fewer than
\* race_frequency races have been created today.
C13_QuotaOfRacesCreated ==
    [][(st["tick"].pc = "create" /\ races' # races)
            => used.made < race_frequency]_vars

\* C13 witness: a tick has begun when the stored races, a finished one among
\* them, fill the quota, and it needs no race.
C13_QuotaAlreadyMet ==
    /\ st["tick"].pc = "create" /\ st["tick"].need = 0
    /\ Cardinality(DOMAIN races) = race_frequency
    /\ \E r \in DOMAIN races : races[r].finished

\* C14, the tick selects every unfinished race, also those an earlier tick
\* left unfinished.
ListsAllUnfinished ==
    (st["tick"].pc = "create" /\ st'["tick"].pc # "create") =>
        /\ st'["tick"].listed = UnfinishedRaces
        /\ {st'["tick"].todo[i] : i \in DOMAIN st'["tick"].todo} = UnfinishedRaces

\* C14, when a tick that found racers returns, every race it selected and
\* cancel_race has not deleted is stored as finished.
FinishesListed ==
    (st["tick"].pc \notin {"idle", "stopped"} /\ st'["tick"].pc = "idle"
        /\ st["tick"].loaded # {}) =>
        \A r \in st["tick"].listed \ st["tick"].gone :
            r \in DOMAIN races /\ races[r].finished

\* C14: when a non-retired racer exists and nothing fails, every race that is
\* unfinished when tick() loads it and is not deleted meanwhile is marked
\* finished by the time the tick returns; a race left unfinished by one tick
\* is picked up by the next.
C14_TickFinishesItsRaces == [][ListsAllUnfinished /\ FinishesListed]_vars

\* C14 witness: a tick that selected two races is about to return.
C14_TwoRacesDone ==
    /\ st["tick"].pc = "next" /\ st["tick"].todo = <<>>
    /\ Cardinality(st["tick"].listed) >= 2

\* The lifecycle of a race in the tick: announce the odds, wait for the
\* betting window, count down, simulate, mark finished, settle the payouts,
\* apply the retirements, stream the commentary, notify the bettors.
LifecycleOrder ==
    <<"announce", "wait", "countdown", "simulate", "finished", "settle",
      "retire", "stream", "notify">>

IsPrefix(s, t) == Len(s) <= Len(t) /\ s = SubSeq(t, 1, Len(s))

\* C15: for every race the tick processes, the steps begin in the order of
\* LifecycleOrder: the countdown never starts before the betting-window wait
\* is over, and while the tick settles and retires the race is stored as
\* finished.
C15_LifecycleInOrder ==
    /\ IsPrefix(st["tick"].steps, LifecycleOrder)
    /\ st["tick"].pc \in {"load_bets", "resolve", "get_wallet", "commit", "retire"}
            => /\ st["tick"].race \in DOMAIN races
               /\ races[st["tick"].race].finished

\* C15 witness: the tick has begun every step of a race's lifecycle.
C15_WholeLifecycle == st["tick"].steps = LifecycleOrder

C17_SettledAtMostOnce ==
    \A p \in Settlers :
        st[p].pc \in {"resolve", "get_wallet", "commit"}
            => st[p].race \notin DOMAIN settled

\* C18: once cancel_race has deleted a race, no later step of a tick in
\* progress credits a wallet for the race's bets, retires or creates a racer
\* on its behalf, or posts its results.
C18_CancelledIsTerminal ==
    [][\A p \in Settlers :
            (st[p].race \in st[p].gone /\ st'[p] # st[p])
                => /\ wallets' = wallets
                   /\ racers' = racers
                   /\ st[p].pc # "results"]_vars

\* The participants the retirements have visited, and those among them whose
\* draw reached the threshold.
Visited(p) == st[p].parts \ st[p].rleft
Retiring(p) == {r \in Visited(p) : st[p].drawn[r] >= retirement_threshold}

\* C19: the retirements retire a participant exactly when its draw from
\* [1,100] is at least the threshold, and create for each retired participant
\* exactly one new non-retired racer with its owner and its name plus a
\* suffix; the racer count grows by the number retired (every draw retires
\* with threshold 0, none with threshold 101).
C19_RetirementBySuccession ==
    /\ \A d \in 1..100 : Retires(d, 0) /\ ~Retires(d, 101)
    /\ \A p \in Settlers :
        st[p].pc = "retire" =>
            LET r0 == st[p].r0
                new == DOMAIN racers \ DOMAIN r0
            IN  /\ \A r \in Visited(p) :
                        racers[r].retired <=> (r0[r].retired \/ r \in Retiring(p))
                /\ \A r \in DOMAIN r0 \ Visited(p) : racers[r] = r0[r]
                /\ Cardinality(DOMAIN racers)
                        = Cardinality(DOMAIN r0) + Cardinality(Retiring(p))
                /\ \A x \in new : ~racers[x].retired
                /\ \A r \in Retiring(p) :
                        Cardinality({x \in new :
                                        /\ racers[x].owner = r0[r].owner
                                        /\ racers[x].gen = r0[r].gen + 1})
                        = Cardinality({q \in Retiring(p) :
                                        /\ r0[q].owner = r0[r].owner
                                        /\ r0[q].gen = r0[r].gen})

\* C19 witness: the retirements have visited every participant, retired one
\* and kept another.
C19_OneRetiredOneKept ==
    \E p \in Settlers :
        /\ st[p].pc = "retire" /\ st[p].rleft = {}
        /\ Retiring(p) # {}
        /\ Visited(p) \ Retiring(p) # {}

\* C20: a racer that has been marked retired is never a participant of a race
\* whose lifecycle starts afterwards, also of a later race of the same tick.
C20_RetiredNeverParticipates ==
    [][\A p \in Settlers :
            (st[p].pc # "betting" /\ st'[p].pc = "betting")
                => \A r \in st'[p].parts : ~racers[r].retired]_vars

C22_PolledBeforeEveryEmission ==
    /\ Len(cm.sink) <= cm.pos
    /\ cm.why = "deleted" => cm.pc = "done"
    /\ cm.delPos >= 0 => Len(cm.sink) <= cm.delPos
    /\ (cm.delPos >= 0 /\ cm.delPos < Len(cm.log)) => Len(cm.sink) < Len(cm.log)

\* C22, as stated: when the race is deleted before the last event is emitted,
\* the channel ends up with strictly fewer than len(log) events.
C22_DeletedBeforeLastMeansFewer ==
    (cm.pc = "done" /\ cm.delSent >= 0 /\ cm.delSent < Len(cm.log))
        => Len(cm.sink) < Len(cm.log)

\* A look-up has found the race deleted in the middle of a log.
C22_StoppedMidStream ==
    /\ cm.why = "deleted"
    /\ Len(cm.sink) > 0
    /\ Len(cm.sink) < Len(cm.log)

\* C23: when the delivery of an event fails, _stream_commentary stops and
\* returns normally: the channel holds the entries before the failed one, the
\* failed entry is not sent again and no later entry is sent.
C23_FailedDeliveryStops ==
    cm.why = "failed" =>
        /\ cm.pc = "done"
        /\ cm.out = "returned"
        /\ cm.sink = SubSeq(cm.log, 1, cm.pos - 1)

\* The delivery of the second of three entries has failed.
C23_FailedMidLog ==
    /\ cm.why = "failed"
    /\ cm.pos = 2
    /\ Len(cm.log) = 3
    /\ cm.delPos = -1

\* C24: a notification that cannot be delivered (announcement, countdown
\* message, results post, direct message to a bettor) never ends tick(): the
\* step in which the delivery fails leaves the tick running.
C24_NotificationFailureIsSwallowed ==
    [][used'.fail > used.fail => st'["tick"].pc # "stopped"]_vars

\* C25: a storage error while the tick settles a race ends that race's
\* lifecycle only: the tick goes on with the next race it has loaded.
C25_FailureAbortsOneRace ==
    [][(used'.fail > used.fail /\ st["tick"].pc \in {"resolve", "get_wallet", "commit"})
            => (st'["tick"].pc = "next" /\ st'["tick"].todo = st["tick"].todo)]_vars

\* The users whose wallet row is created by this step.
NewWallets == DOMAIN wallets' \ DOMAIN wallets

\* This step is a step of resolve_payouts.
BySettlement == \E p \in Settlers : st[p].pc = "get_wallet" /\ st'[p] # st[p]

\* C26, as the code has it: a wallet created by the wallet command or by
\* race_bet starts with the configured default balance; a wallet created by
\* settlement for a bettor who has none starts with 0.
C26_InitialBalance ==
    [][\A u \in NewWallets :
            wallets'[u] = IF BySettlement THEN 0 ELSE default_wallet]_vars

\* C26, as stated: every wallet that is created starts with the configured
\* default balance, whichever operation creates it.
C26_AlwaysDefaultBalance ==
    [][\A u \in NewWallets : wallets'[u] = default_wallet]_vars

\* force-start's resolve_payouts found no wallet of user 2 and has created it.
C26_SettlementMadeWallet ==
    /\ st["force"].pc \in {"get_wallet", "commit"}
    /\ 2 \in DOMAIN wallets
    /\ 2 \in DOMAIN st["force"].wc
    /\ 2 \notin DOMAIN st["force"].w0

\* The history has at most limit entries, all of finished races, in
\* descending order of id, and no finished race left out has a higher id than
\* one listed.
HistoryShape ==
    \A limit \in Limits :
        LET h == get_race_history(races, bets, limit)
            listed == {h[i].race : i \in DOMAIN h}
            finished == {r \in DOMAIN races : races[r].finished}
        IN  /\ Len(h) <= limit
            /\ Len(h) = limit \/ listed = finished
            /\ listed \subseteq finished
            /\ \A i, j \in DOMAIN h : i < j => h[i].race > h[j].race
            /\ \A r \in finished \ listed : \A x \in listed : r < x

\* When resolve_payouts returns for a race with bets, the history's entry of
\* the race reports the winner it declared and the total it paid.
HistoryReportsSettlement ==
    \A p \in Settlers :
        (st[p].pc = "commit" /\ st'[p].pc = "retire" /\ DOMAIN st[p].rb # {})
        => \A limit \in Limits :
            LET h == get_race_history(races', bets', limit)
            IN  \A i \in DOMAIN h :
                    h[i].race = st[p].race
                    => /\ h[i].winner = st[p].winner
                       /\ h[i].payout = SumDoubled(st[p].rb, DOMAIN st[p].rb,
                                                   st[p].winner)

\* C27: get_race_history(guild, N) returns at most N entries, the finished
\* races with the highest ids in descending order, and the entry of a race
\* settled with bets reports the winner settlement declared and the total it
\* paid.
C27_HistoryOfSettledRaces ==
    []HistoryShape /\ [][HistoryReportsSettlement]_vars

\* C28: simulate_race is deterministic: all invocations with the same
\* participant list, number of segments and seed return the same placements
\* and the same log, whatever was drawn from the module's generator before
\* and between them.
C28_SameSeedSameRace == Cardinality(sim.outs) <= 1

\* Two invocations, with the module's generator in different states.
C28_TwoRunsDrawsBetween ==
    /\ sim.calls = 2
    /\ Cardinality(sim.at) = 2
    /\ Len(sim.arg) = MaxRacers
    /\ sim.k = MaxSegments

\* The number of entries of list x that equal id.
Count(x, id) == Cardinality({i \in DOMAIN x : x[i] = id})

\* C29: for a non-empty participant list and k segments, the placements are
\* a permutation of the participants' ids (each id as often as in the list),
\* the log has k lines, numbered 1..k, each naming a racer of the placements,
\* and the list passed in is left as it was.
C29_PlacementsPermuteRacers ==
    /\ sim.racers = sim.arg
    /\ \A o \in sim.outs :
        /\ Len(o.placements) = Len(sim.arg)
        /\ \A id \in RacerIds : Count(o.placements, id) = Count(sim.arg, id)
        /\ Len(o.log) = sim.k
        /\ \A i \in DOMAIN o.log :
            /\ o.log[i].segment = i
            /\ \E j \in DOMAIN o.placements : o.log[i].racer = o.placements[j]

\* A list of three different racers has come back in another order, with a
\* log of two lines.
C29_ShuffledThree ==
    /\ sim.arg = <<1, 2, 3>>
    /\ sim.k = 2
    /\ \E o \in sim.outs : o.placements # sim.arg

\* C30: race_bet places a bet on a race only while the tick sleeps in the
\* betting window of that race, after its announcement and before its
\* countdown.
C30_BetsOnlyInWindow ==
    [][\A h \in Handlers :
            (hb[h].pc = "write_bet" /\ hb'[h].out = "placed")
                => (st["tick"].pc = "betting" /\ st["tick"].race = hb[h].race)]_vars

\* The races whose countdown or simulation a settling coroutine has begun:
\* the tick is past the betting window of its current race, force-start past
\* its sample.
Underway ==
    {st[p].race : p \in {q \in Settlers :
        st[q].pc \in {"countdown", "load_bets", "resolve", "get_wallet",
                      "commit", "retire"}}}

\* C31: cancel_race deletes a race only while it is scheduled or open for
\* bets: the race it deletes is stored unfinished and is not underway; and
\* when it finds no unfinished race it leaves the store as it is.
C31_CancelOnlyBeforeStart ==
    [][/\ (cn.pc = "delete" /\ cn'.pc = "send")
            => /\ cn.race \in DOMAIN races
               /\ ~races[cn.race].finished
               /\ cn.race \notin Underway
       /\ (cn.pc = "idle" /\ cn'.pc = "send") => UNCHANGED store]_vars

\* C32: _stream_commentary makes at most len(log) + 1 look-ups, never waits
\* for a done that nothing will set, and has no timer left in commentaries
\* when it has returned.
C32_CommentaryReturns ==
    /\ cm.polls <= Len(cm.log) + 1
    /\ cm.pc # "blocked"
    /\ cm.pc = "done" => ~cm.timer

\* C33: simulate_race with no participants does not raise, whatever the number
\* of course segments, and returns empty placements and an empty log.
C33_EmptyFieldDoesNotRaise ==
    (sim.arg = <<>> /\ sim.calls > 0)
        => /\ ~sim.raised
           /\ sim.outs = {[placements |-> <<>>, log |-> <<>>]}

\* C34: while the tick streams the commentary of a race, the log it streams
\* has one event for every CourseSegment row of the race.
C34_LogHasOneEventPerSegment ==
    st["tick"].pc = "stream"
        => Len(st["tick"].log) = SegmentsOf(st["tick"].race)

\* C35: there is one constant K such that the participants of every race that
\* is being run, by the tick or by force-start, are min(K, number of racers
\* that were not retired when they were selected) distinct racers.
C35_OneFieldSize ==
    \E K \in 0..TickSample :
        \A p \in Settlers :
            st[p].pc \in {"betting", "countdown", "load_bets", "resolve"}
                => /\ st[p].parts \subseteq st[p].loaded
                   /\ Cardinality(st[p].parts)
                        = IF K < Cardinality(st[p].loaded) THEN K
                          ELSE Cardinality(st[p].loaded)

\* C36: when the tick sends the payout messages of a race it has settled, the
\* bets being of positive amounts, the bets it sends a message for are the
\* bets its settlement resolved, and the
\* message of a bet is a win message exactly if the settlement credited the
\* bet's wallet, that is if the bet was on the winner of the settlement.
C36_MessagesTellTheSettlement ==
    LET s == st["tick"]
    IN  (/\ s.pc = "dm"
         /\ DOMAIN s.rb # {}
         /\ \A b \in DOMAIN s.rb : s.rb[b].amount > 0)
            => /\ DOMAIN s.dm = DOMAIN s.rb
               /\ \A b \in DOMAIN s.dm :
                    (s.dm[b].racer_id = winning(s.dm))
                        <=> (s.rb[b].racer_id = s.winner)

\* C37: a step of the tick, from its invocation to its look-up of the
\* racers, taken while no racer is active changes no bet, wallet or racer and
\* no stored race, creates only unfinished races, announces, simulates and
\* settles nothing, and the look-up of the racers ends the tick.
C37_NoRacersNoRace ==
    [][(/\ st'["tick"] # st["tick"]
        /\ st["tick"].pc \in {"idle", "create", "load_racers"}
        /\ ActiveRacers = {})
            => /\ UNCHANGED <<racers, bets, wallets>>
               /\ \A r \in DOMAIN races : r \in DOMAIN races' /\ races'[r] = races[r]
               /\ \A r \in DOMAIN races' \ DOMAIN races : ~races'[r].finished
               /\ st'["tick"].steps = <<>>
               /\ st'["tick"].parts = {}
               /\ st'["tick"].pc \in {"idle", "create", "load_racers"}
               /\ st["tick"].pc = "load_racers" => st'["tick"].pc = "idle"]_vars

\* A tick that created the day's races and returned, there being no racer:
\* both races are stored unfinished.
C37_TickReturnedWithoutRacers ==
    /\ st["tick"].pc = "idle"
    /\ used.ops = 1
    /\ used.made = race_frequency
    /\ racers = <<>>
    /\ DOMAIN races = 1..race_frequency
    /\ \A r \in DOMAIN races : ~races[r].finished

\* C38: no step removes a racer row or clears the retired flag of a racer.
C38_RacersOnlyGrow ==
    [][/\ DOMAIN racers \subseteq DOMAIN racers'
       /\ \A r \in DOMAIN racers : racers[r].retired => racers'[r].retired]_vars

\* A racer has been retired and its successor created.
C38_RetiredWithSuccessor ==
    \E r, n \in DOMAIN racers :
        /\ racers[r].retired
        /\ ~racers[n].retired
        /\ racers[n].gen = racers[r].gen + 1

\* C39: every stored bet is on a stored race.
C39_BetsReferToStoredRaces ==
    \A b \in DOMAIN bets : bets[b].race_id \in DOMAIN races

\* C40: a retirement step of the tick leaves the number of active racers as
\* it was: the racer it retires was active and gets one successor.
C40_OneForOneReplacement ==
    [][(st["tick"].pc = "retire" /\ st'["tick"] # st["tick"])
            => Cardinality({r \in DOMAIN racers' : ~racers'[r].retired})
                    = Cardinality(ActiveRacers)]_vars

====
